---------------------------- MODULE Spec2Model ----------------------------
(***************************************************************************)
(* A model of the orion administration console (package web).              *)
(*                                                                         *)
(*   web/utils.py   the client of the remote PDS service: get_pds_status,  *)
(*                  get_pds_accounts, extend_with_account_info and the     *)
(*                  three executors (takedown, untakedown, delete)         *)
(*   web/views.py   the request handlers and the ACCOUNT_ACTIONS registry   *)
(*   web/models.py  the AuditLog table                                     *)
(*                                                                         *)
(* Three specifications share the module.  SpecUtils runs one call of a    *)
(* function of web/utils.py against every answer the remote service can    *)
(* give; Spec runs the request handlers of web/views.py for two clients;   *)
(* SpecAudit runs, for more requests, the handlers that write and read the *)
(* audit table without calling the PDS.                                    *)
(*                                                                         *)
(* Python values: a dict is a function on its keys (a record), a list is a *)
(* sequence, a str is a TLA+ string, except the action name of a URL,      *)
(* which is a sequence of one-character strings so that str.lower() can be *)
(* computed.                                                               *)
(***************************************************************************)
EXTENDS Integers, Sequences, FiniteSets, TLC

VARIABLES
    op,          \* SpecUtils: the function of web/utils.py that is called
    batchSize,   \* web.utils.BATCH_SIZE (tests patch it)
    acc,         \* SpecUtils: the frame of get_pds_accounts / extend_with_account_info
    health,      \* SpecUtils: the call of get_pds_status
    session,     \* the principal of each client's session (Anonymous: none)
    pending,     \* each client's POST in flight in account_action_view
    last,        \* the request that completed last, with its response
    auditLog,    \* the rows of the AuditLog table, in insertion order
    invocations, \* the executor calls made so far (requests sent to the PDS)
    now,         \* the clock, in ticks
    nreq         \* the number of requests received so far

utilVars == <<op, batchSize, acc, health>>

webVars == <<session, pending, last, auditLog, invocations, now, nreq>>

vars == <<op, batchSize, acc, health, session, pending, last, auditLog, invocations, now, nreq>>

(***************************************************************************)
(* Bounds of the model.                                                    *)
(***************************************************************************)
MaxRepos == 3
MaxBatch == 3
MaxRequests == 2
MaxAuditRequests == 4
MaxClock == 1
MaxTakedownClock == 3
TicksPerSecond == 2

(***************************************************************************)
(* Program constants.                                                      *)
(***************************************************************************)
BATCH_SIZE == 100

Unknown == "unknown"

(***************************************************************************)
(* dict.get(key, default)                                                  *)
(***************************************************************************)
DictGet(d, key, default) == IF key \in DOMAIN d THEN d[key] ELSE default

(***************************************************************************)
(* What the remote service can answer to one HTTP request.                 *)
(*   kind   "error": requests raised a RequestException (no connection,    *)
(*          timeout); "http": a response came back                         *)
(*   status the HTTP status of the response                                *)
(*   json   "object" or "array": the type of the decoded body              *)
(*   has    whether the object has the key the caller reads                *)
(*          ("repos" or "infos")                                           *)
(*   items  the list under that key                                        *)
(***************************************************************************)
TransportError == [kind |-> "error", status |-> 0, json |-> "object", has |-> FALSE, items |-> <<>>]

HttpStatus(s) == [kind |-> "http", status |-> s, json |-> "object", has |-> FALSE, items |-> <<>>]

JsonObject(has, items) == [kind |-> "http", status |-> 200, json |-> "object", has |-> has, items |-> items]

JsonArray == [kind |-> "http", status |-> 200, json |-> "array", has |-> FALSE, items |-> <<>>]

\* Response.raise_for_status(): an HTTPError (a RequestException) for 4xx and 5xx.
RaisesForStatus(resp) == resp.status >= 400 /\ resp.status < 600

\* The try block of every function of web/utils.py ends in the except branch.
RequestFailed(resp) == resp.kind = "error" \/ RaisesForStatus(resp)


(***************************************************************************)
(* get_pds_status                                                          *)
(***************************************************************************)
MutGetPdsStatus(resp) == resp.kind = "http" /\ resp.status >= 200 /\ resp.status < 300

GetPdsStatus(resp) ==
    IF resp.kind = "error"
    THEN FALSE                    \* except requests.RequestException
    ELSE resp.status = 200        \* return response.status_code == 200

(***************************************************************************)
(* The frame of one call of get_pds_accounts, which runs                   *)
(* extend_with_account_info on the listing it received.                    *)
(*   pc            "idle" before the call, "batch" inside the loop over    *)
(*                 the batches, "returned" or "raised" at the end          *)
(*   repos, dids   the base listing and its identifiers                    *)
(*   i             the loop variable of range(0, len(dids), BATCH_SIZE)    *)
(*   account_infos the merged lookup, identifier -> info                   *)
(*   calls         the HTTP requests sent so far                           *)
(*   listing       what the service answered to the listRepos request      *)
(*   answers       what the service answered to each bulk-info request     *)
(*   result        the value returned (pc = "returned")                    *)
(*   error         the exception that escaped (pc = "raised")              *)
(***************************************************************************)
EmptyDict == [k \in {} |-> Unknown]

IdleFrame ==
    [pc |-> "idle", repos |-> <<>>, dids |-> <<>>, i |-> 0,
     account_infos |-> [d \in {} |-> EmptyDict], calls |-> <<>>,
     listing |-> TransportError, answers |-> <<>>,
     result |-> <<>>, error |-> ""]

Return(f, value) == [f EXCEPT !.pc = "returned", !.result = value]

Raise(f, exc) == [f EXCEPT !.pc = "raised", !.error = exc]

Min(a, b) == IF a <= b THEN a ELSE b

\* account_infos[info["did"]] = info
DictSet(table, key, value) ==
    [k \in DOMAIN table \cup {key} |-> IF k = key THEN value ELSE table[k]]

\* for info in data.get("infos", []): account_infos[info["did"]] = info
\* An info without "did" raises KeyError.
RECURSIVE MergeInfos(_, _)
MergeInfos(table, infos) ==
    IF infos = <<>>
    THEN [raised |-> FALSE, table |-> table]
    ELSE IF "did" \notin DOMAIN Head(infos)
         THEN [raised |-> TRUE, table |-> table]
         ELSE MergeInfos(DictSet(table, Head(infos).did, Head(infos)), Tail(infos))

\* {**repo, "handle": ..., "email": ..., "indexedAt": ...}
MutExpandedRepo(repo, account_info) ==
    [k \in {"did", "handle", "email", "indexedAt"} |->
        CASE k = "handle"    -> DictGet(account_info, "handle", Unknown)
          [] k = "email"     -> DictGet(account_info, "email", Unknown)
          [] k = "indexedAt" -> DictGet(account_info, "createdAt", Unknown)
          [] OTHER           -> repo[k]]

ExpandedRepo(repo, account_info) ==
    [k \in DOMAIN repo \cup {"handle", "email", "indexedAt"} |->
        CASE k = "handle"    -> DictGet(account_info, "handle", Unknown)
          [] k = "email"     -> DictGet(account_info, "email", Unknown)
          [] k = "indexedAt" -> DictGet(account_info, "createdAt", Unknown)
          [] OTHER           -> repo[k]]

\* The second loop of extend_with_account_info and its return.
ExtendBuild(f) ==
    Return(f, [k \in 1 .. Len(f.repos) |->
                  ExpandedRepo(f.repos[k],
                               DictGet(f.account_infos, f.repos[k].did, EmptyDict))])

\* batch = dids[i : i + BATCH_SIZE]
BatchOf(dids, i, B) == SubSeq(dids, i + 1, Min(i + B, Len(dids)))

\* The next value of range(0, len(dids), BATCH_SIZE), or the end of the loop.
NextBatch(f, B) ==
    IF f.i + B < Len(f.dids) THEN [f EXCEPT !.i = @ + B] ELSE ExtendBuild(f)

\* extend_with_account_info up to its first request.
ExtendEnter(f, repos) ==
    IF repos = <<>>
    THEN Return(f, repos)                                   \* if not repos: return repos
    ELSE IF \E k \in 1 .. Len(repos) : "did" \notin DOMAIN repos[k]
         THEN Raise(f, "KeyError")                          \* repo["did"]
         ELSE [f EXCEPT !.pc = "batch", !.repos = repos, !.i = 0,
                        !.dids = [k \in 1 .. Len(repos) |-> repos[k].did]]

\* One iteration of the loop over the batches, the service answering resp.
ExtendBatch(f, B, resp) ==
    LET called == [f EXCEPT
                      !.calls = Append(@, [endpoint |-> "getAccountInfos",
                                           dids |-> BatchOf(f.dids, f.i, B)]),
                      !.answers = Append(@, resp)]
    IN  IF RequestFailed(resp)
        THEN NextBatch(called, B)                 \* except: logged, the loop goes on
        ELSE IF resp.json # "object"
             THEN Raise(called, "AttributeError") \* data.get on a list
             ELSE LET m == MergeInfos(called.account_infos,
                                      IF resp.has THEN resp.items ELSE <<>>)
                  IN  IF m.raised
                      THEN Raise(called, "KeyError")          \* info["did"]
                      ELSE NextBatch([called EXCEPT !.account_infos = m.table], B)

\* get_pds_accounts up to the first request of extend_with_account_info.
GetPdsAccountsEnter(f, resp) ==
    LET called == [f EXCEPT !.calls = Append(@, [endpoint |-> "listRepos", dids |-> <<>>]),
                            !.listing = resp]
    IN  IF RequestFailed(resp)
        THEN Return(called, <<>>)                 \* except: return []
        ELSE IF resp.json # "object"
             THEN Raise(called, "TypeError")      \* data["repos"] on a list
             ELSE IF ~resp.has
                  THEN Raise(called, "KeyError")  \* data["repos"]
                  ELSE ExtendEnter(called, resp.items)


(***************************************************************************)
(* get_pds_account_info: None on a failure, the decoded body otherwise.    *)
(***************************************************************************)
NoneInfo == [isNone |-> TRUE, data |-> TransportError]

GetPdsAccountInfo(did, resp) ==
    IF RequestFailed(resp)
    THEN NoneInfo                              \* except: return None
    ELSE [isNone |-> FALSE, data |-> resp]     \* return response.json()

(***************************************************************************)
(* The executors.  Each sends one POST to the PDS and returns True when    *)
(* the request neither failed nor came back with an error status.  t is    *)
(* datetime.now() in ticks; the takedown reference is its whole seconds.   *)
(***************************************************************************)
NoRef == <<>>

TakedownRef(t) == <<t \div TicksPerSecond>>     \* str(int(datetime.now().timestamp()))

DeletePdsAccount(did, t, resp) ==
    [call |-> [endpoint |-> "deleteAccount", did |-> did, applied |-> FALSE, ref |-> NoRef],
     ok |-> ~RequestFailed(resp)]

TakedownPdsAccount(did, t, resp) ==
    [call |-> [endpoint |-> "updateSubjectStatus", did |-> did, applied |-> TRUE,
               ref |-> TakedownRef(t)],
     ok |-> ~RequestFailed(resp)]

UntakedownPdsAccount(did, t, resp) ==
    [call |-> [endpoint |-> "updateSubjectStatus", did |-> did, applied |-> FALSE, ref |-> NoRef],
     ok |-> ~RequestFailed(resp)]

ExecutorEndpoints == {"deleteAccount", "updateSubjectStatus"}

(***************************************************************************)
(* web/models.py                                                           *)
(***************************************************************************)
AuditLogEvent == {"LOGIN", "LOGOUT", "DELETE", "TAKEDOWN", "UNTAKEDOWN", "PASSWORD_CHANGE"}

\* AuditLog.objects.create(user=..., event=..., description=...): created_at
\* is the time of the insertion (auto_now_add).  id stands for the row's
\* primary key and req for the request that inserted the row.
MutCreate(log, user, event, description, t, req) ==
    LET row == [id |-> Len(log) + 1, created_at |-> t, user |-> user, event |-> event,
                description |-> description, req |-> req]
    IN  IF log = <<>> THEN <<row>> ELSE [log EXCEPT ![Len(log)] = row]

Create(log, user, event, description, t, req) ==
    Append(log, [id |-> Len(log) + 1, created_at |-> t, user |-> user, event |-> event,
                 description |-> description, req |-> req])

\* order_by("-created_at"): the orders in which the database may return the
\* rows.  Rows of equal created_at have no order among them.
PermutationsOf(n) == {p \in [1 .. n -> 1 .. n] : \A i, j \in 1 .. n : i # j => p[i] # p[j]}

OrderByCreatedAtDesc(log) ==
    {[k \in 1 .. Len(log) |-> log[p[k]]] :
        p \in {q \in PermutationsOf(Len(log)) :
                 \A i, j \in 1 .. Len(log) :
                    i < j => log[q[i]].created_at >= log[q[j]].created_at}}

(***************************************************************************)
(* web/views.py                                                            *)
(***************************************************************************)
Anonymous == "AnonymousUser"
Users == {"alice", "bob"}
Clients == {"c1", "c2"}
DIDs == {"d1", "d2"}

\* str.lower() on the letters the action names use.
UpperCase == <<"A", "D", "E", "K", "L", "N", "O", "T", "U", "W">>
LowerCase == <<"a", "d", "e", "k", "l", "n", "o", "t", "u", "w">>

LowerChar(c) ==
    IF \E i \in 1 .. Len(UpperCase) : UpperCase[i] = c
    THEN LowerCase[CHOOSE i \in 1 .. Len(UpperCase) : UpperCase[i] = c]
    ELSE c

Lower(str) == [i \in 1 .. Len(str) |-> LowerChar(str[i])]

Takedown == <<"t", "a", "k", "e", "d", "o", "w", "n">>
Untakedown == <<"u", "n", "t", "a", "k", "e", "d", "o", "w", "n">>
Delete == <<"d", "e", "l", "e", "t", "e">>

\* ACCOUNT_ACTIONS: action name -> (audit event, handler)
ACCOUNT_ACTIONS ==
    [a \in {Takedown, Untakedown, Delete} |->
        CASE a = Takedown   -> [event |-> "TAKEDOWN", handler |-> "takedown_pds_account"]
          [] a = Untakedown -> [event |-> "UNTAKEDOWN", handler |-> "untakedown_pds_account"]
          [] a = Delete     -> [event |-> "DELETE", handler |-> "delete_pds_account"]]

\* handler(did)
CallHandler(handler, did, t, resp) ==
    CASE handler = "takedown_pds_account"   -> TakedownPdsAccount(did, t, resp)
      [] handler = "untakedown_pds_account" -> UntakedownPdsAccount(did, t, resp)
      [] handler = "delete_pds_account"     -> DeletePdsAccount(did, t, resp)

\* if action not in ACCOUNT_ACTIONS
InvalidAction(action) == action \notin DOMAIN ACCOUNT_ACTIONS

\* f"User performed {action} on {did}"
Description(action, did) == <<"User performed ">> \o action \o <<" on ", did>>

\* The path of a request, as urls.py routes it.
PathOf(view, did, action) ==
    CASE view = "login"          -> <<"/">>
      [] view = "logout"         -> <<"/logout/">>
      [] view = "dashboard"      -> <<"/dashboard/">>
      [] view = "audit_log"      -> <<"/audit-log/">>
      [] view = "account_action" -> <<"/accounts/", did, "/">> \o action \o <<"/">>

\* A response.  code is the HTTP status; location and next are those of a
\* redirect; template and the fields after it are those of a rendered page.
NoResponse ==
    [code |-> 0, location |-> "", next |-> <<>>, template |-> "", did |-> "", action |-> <<>>,
     account_info |-> NoneInfo, audit_logs |-> <<>>, is_service_healthy |-> FALSE,
     accounts |-> <<>>, content |-> ""]

Redirect(to) == [NoResponse EXCEPT !.code = 302, !.location = to]

\* @login_required: an anonymous request is sent to the login page, with the
\* path it asked for as the next parameter.
RedirectToLogin(path) == [NoResponse EXCEPT !.code = 302, !.location = "login", !.next = path]

HttpResponseBadRequest(content) == [NoResponse EXCEPT !.code = 400, !.content = content]

HttpResponseNotAllowed == [NoResponse EXCEPT !.code = 405]

\* An exception that escapes a view: Django answers 500.
ServerError(exc) == [NoResponse EXCEPT !.code = 500, !.content = exc]

MutLoginRequired(user) == TRUE

LoginRequired(user) == user # Anonymous

\* The request that completed last: its number, its sender, the principal,
\* what was asked, the response, the requests it sent to the PDS and, for
\* a POST of account_action_view, what the executor returned.
NoRequest ==
    [id |-> 0, client |-> "", user |-> Anonymous, view |-> "", method |-> "", did |-> "",
     action |-> <<>>, resp |-> NoResponse, calls |-> <<>>, ok |-> FALSE]

Completed(id, c, user, view, method, did, action, resp, calls, ok) ==
    [id |-> id, client |-> c, user |-> user, view |-> view, method |-> method, did |-> did,
     action |-> action, resp |-> resp, calls |-> calls, ok |-> ok]

\* A client's POST between the executor's call and the audit record.
NoPending ==
    [active |-> FALSE, id |-> 0, user |-> Anonymous, method |-> "", did |-> "", raw |-> <<>>,
     action |-> <<>>,
     event |-> "", call |-> [endpoint |-> "", did |-> "", applied |-> FALSE, ref |-> NoRef],
     ok |-> FALSE]

\* get_pds_accounts, run to its end: the listing request answered by
\* listResp and every bulk-info request by bulkResp.
RECURSIVE RunBatches(_, _, _)
RunBatches(f, B, resp) ==
    IF f.pc = "batch" THEN RunBatches(ExtendBatch(f, B, resp), B, resp) ELSE f

GetPdsAccounts(listResp, bulkResp) ==
    RunBatches(GetPdsAccountsEnter(IdleFrame, listResp), BATCH_SIZE, bulkResp)

(***************************************************************************)
(* The answers of the remote service the model draws from.                 *)
(***************************************************************************)
RepoD1 == [did |-> "d1", head |-> "c1"]
RepoD2 == [did |-> "d2", head |-> "c2", handle |-> "stale"]
RepoNoDid == [head |-> "c3"]

RepoPool == {RepoD1, RepoD2, RepoNoDid}

InfoD1 == [did |-> "d1", handle |-> "h1", email |-> "e1", createdAt |-> "t1"]
InfoD1b == [did |-> "d1", handle |-> "h1b", email |-> "e1b", createdAt |-> "t1b"]
InfoD2 == [did |-> "d2", handle |-> "h2"]
InfoD3 == [did |-> "d3", handle |-> "h3", email |-> "e3", createdAt |-> "t3"]
InfoNoDid == [handle |-> "h9"]

SeqsUpTo(S, n) == UNION {[1 .. m -> S] : m \in 0 .. n}

ListResponses ==
    {TransportError, HttpStatus(404), JsonArray, JsonObject(FALSE, <<>>)}
    \cup {JsonObject(TRUE, repos) : repos \in SeqsUpTo(RepoPool, MaxRepos)}

BulkResponses ==
    {TransportError, HttpStatus(500), JsonArray, JsonObject(FALSE, <<>>)}
    \cup {JsonObject(TRUE, infos) :
            infos \in {<<>>, <<InfoD1>>, <<InfoD2>>, <<InfoD1, InfoD1b>>,
                       <<InfoD3, InfoD2>>, <<InfoNoDid>>}}

StatusCodes == {100, 199, 200, 201, 204, 299, 302, 400, 404, 500, 503}

HealthResponses == {TransportError} \cup {HttpStatus(s) : s \in StatusCodes}

(***************************************************************************)
(* SpecUtils: one call of get_pds_status or of get_pds_accounts.           *)
(***************************************************************************)
IdleHealth == [pc |-> "idle", resp |-> TransportError, value |-> FALSE]

InitUtils ==
    /\ op \in {"get_pds_status", "get_pds_accounts"}
    /\ batchSize \in 1 .. MaxBatch
    /\ acc = IdleFrame
    /\ health = IdleHealth
    /\ session = [c \in Clients |-> Anonymous]
    /\ pending = [c \in Clients |-> NoPending]
    /\ last = NoRequest
    /\ auditLog = <<>>
    /\ invocations = <<>>
    /\ now = 0
    /\ nreq = 0

CallGetPdsStatus ==
    /\ op = "get_pds_status"
    /\ health.pc = "idle"
    /\ \E resp \in HealthResponses :
          health' = [pc |-> "returned", resp |-> resp, value |-> GetPdsStatus(resp)]
    /\ UNCHANGED <<op, batchSize, acc>>
    /\ UNCHANGED webVars

CallGetPdsAccounts ==
    /\ op = "get_pds_accounts"
    /\ acc.pc = "idle"
    /\ \E resp \in ListResponses : acc' = GetPdsAccountsEnter(acc, resp)
    /\ UNCHANGED <<op, batchSize, health>>
    /\ UNCHANGED webVars

BulkInfoCall ==
    /\ acc.pc = "batch"
    /\ \E resp \in BulkResponses : acc' = ExtendBatch(acc, batchSize, resp)
    /\ UNCHANGED <<op, batchSize, health>>
    /\ UNCHANGED webVars

NextUtils == CallGetPdsStatus \/ CallGetPdsAccounts \/ BulkInfoCall

SpecUtils == InitUtils /\ [][NextUtils]_vars



(***************************************************************************)
(* Spec: the request handlers of web/views.py, for two clients.  A client  *)
(* sends one request at a time.  Every handler but the POST branch of      *)
(* account_action_view is one step; that branch is two steps, the call of  *)
(* the executor and the audit record, between which the requests of the    *)
(* other client may run.                                                   *)
(***************************************************************************)
ActionInputs ==
    {Takedown,
     <<"U", "n", "T", "a", "k", "e", "D", "o", "w", "n">>,
     <<"D", "E", "L", "E", "T", "E">>,
     <<"b", "a", "n">>}

Methods == {"GET", "POST", "PUT"}

ExecutorResponses == {TransportError, HttpStatus(500), HttpStatus(200)}

InfoResponses == {TransportError, JsonObject(TRUE, <<InfoD1>>)}

DashHealthResponses == {TransportError, HttpStatus(200)}

DashListResponses == {TransportError, JsonObject(TRUE, <<RepoD1, RepoD2>>)}

DashBulkResponses == {JsonObject(TRUE, <<InfoD1>>)}

\* Sessions outlive the process (the tests open them with client.login(),
\* which writes no audit record); the audit table starts empty.  The
\* database is taken to be available: a request is authenticated from it.
Init ==
    /\ op = "views"
    /\ batchSize = BATCH_SIZE
    /\ acc = IdleFrame
    /\ health = IdleHealth
    /\ session \in {[c \in Clients |-> IF c = "c1" THEN "alice" ELSE u] : u \in {"bob", Anonymous}}
    /\ pending = [c \in Clients |-> NoPending]
    /\ last = NoRequest
    /\ auditLog = <<>>
    /\ invocations = <<>>
    /\ now = 0
    /\ nreq = 0

\* The number of requests a run of the model receives.
RequestBudget == IF op = "audit" THEN MaxAuditRequests ELSE MaxRequests

\* Client c may send a request.
CanRequest(c) == nreq < RequestBudget /\ ~pending[c].active

\* The ticks a run of the model lasts.
ClockBudget == IF op = "takedown" THEN MaxTakedownClock ELSE MaxClock

\* The clock advances.
Tick ==
    /\ now < ClockBudget
    /\ now' = now + 1
    /\ UNCHANGED <<session, pending, last, auditLog, invocations, nreq>>
    /\ UNCHANGED utilVars

\* OrionLoginView: a POST of the login form.  form_valid runs when the
\* credentials are those of user u: the session is opened, then the LOGIN
\* record is written for request.user.
LoginView(c) ==
    /\ CanRequest(c)
    /\ nreq' = nreq + 1
    /\ \E u \in Users, valid \in BOOLEAN :
          IF valid
          THEN /\ session' = [session EXCEPT ![c] = u]
               /\ auditLog' = Create(auditLog, u, "LOGIN", <<"User logged in successfully">>,
                                     now, nreq')
               /\ last' = Completed(nreq', c, session[c], "login", "POST", "", <<>>,
                                    Redirect("/dashboard/"), <<>>, FALSE)
          ELSE /\ last' = Completed(nreq', c, session[c], "login", "POST", "", <<>>,
                                    [NoResponse EXCEPT !.code = 200, !.template = "login.html"],
                                    <<>>, FALSE)
               /\ UNCHANGED <<session, auditLog>>
    /\ UNCHANGED <<pending, invocations, now>>
    /\ UNCHANGED utilVars

\* logout_view
LogoutView(c) ==
    /\ CanRequest(c)
    /\ nreq' = nreq + 1
    /\ auditLog' = IF session[c] # Anonymous
                   THEN Create(auditLog, session[c], "LOGOUT", <<"User logged out">>, now, nreq')
                   ELSE auditLog
    /\ session' = [session EXCEPT ![c] = Anonymous]
    /\ last' = Completed(nreq', c, session[c], "logout", "GET", "", <<>>,
                         Redirect("login"), <<>>, FALSE)
    /\ UNCHANGED <<pending, invocations, now>>
    /\ UNCHANGED utilVars

\* The response of dashboard_view and the requests it sends to the PDS.
DashboardResponse(user, healthResp, listResp, bulkResp) ==
    LET f == GetPdsAccounts(listResp, bulkResp)
        calls == <<[endpoint |-> "_health", dids |-> <<>>]>> \o f.calls
    IN  IF ~LoginRequired(user)
        THEN [resp |-> RedirectToLogin(PathOf("dashboard", "", <<>>)), calls |-> <<>>]
        ELSE IF user = Anonymous
        THEN [resp |-> Redirect("login"), calls |-> <<>>]   \* if not request.user.is_authenticated
        ELSE IF f.pc = "raised"
             THEN [resp |-> ServerError(f.error), calls |-> calls]
             ELSE [resp |-> [NoResponse EXCEPT !.code = 200, !.template = "dashboard.html",
                                               !.is_service_healthy = GetPdsStatus(healthResp),
                                               !.accounts = f.result],
                   calls |-> calls]

\* dashboard_view
DashboardView(c) ==
    /\ CanRequest(c)
    /\ nreq' = nreq + 1
    /\ \E healthResp \in DashHealthResponses, listResp \in DashListResponses,
          bulkResp \in DashBulkResponses :
          LET d == DashboardResponse(session[c], healthResp, listResp, bulkResp)
          IN  last' = Completed(nreq', c, session[c], "dashboard", "GET", "", <<>>,
                                d.resp, d.calls, FALSE)
    /\ UNCHANGED <<session, pending, auditLog, invocations, now>>
    /\ UNCHANGED utilVars

\* The responses audit_log_view can give.
AuditLogResponses(user, log) ==
    IF ~LoginRequired(user)
    THEN {RedirectToLogin(PathOf("audit_log", "", <<>>))}
    ELSE IF user = Anonymous
    THEN {Redirect("login")}         \* if not request.user.is_authenticated
    ELSE {[NoResponse EXCEPT !.code = 200, !.template = "audit_log.html", !.audit_logs = rows] :
             rows \in OrderByCreatedAtDesc(log)}

\* audit_log_view
AuditLogView(c) ==
    /\ CanRequest(c)
    /\ nreq' = nreq + 1
    /\ \E resp \in AuditLogResponses(session[c], auditLog) :
          last' = Completed(nreq', c, session[c], "audit_log", "GET", "", <<>>, resp, <<>>, FALSE)
    /\ UNCHANGED <<session, pending, auditLog, invocations, now>>
    /\ UNCHANGED utilVars

\* account_action_view on a request that does not reach the executor: the
\* login redirect, the 400 of an invalid action, the confirmation page of a
\* GET, the 405 of another method.
MutAccountActionResponse(user, did, raw, method, infoResp) ==
    LET action == Lower(raw)
    IN  IF ~LoginRequired(user)
        THEN [resp |-> RedirectToLogin(PathOf("account_action", did, raw)), calls |-> <<>>]
        ELSE IF method = "GET"
             THEN [resp |-> [NoResponse EXCEPT !.code = 200,
                                               !.template = "account_action.html",
                                               !.did = did, !.action = action,
                                               !.account_info = GetPdsAccountInfo(did, infoResp)],
                   calls |-> <<[endpoint |-> "getAccountInfo", dids |-> <<did>>]>>]
             ELSE IF InvalidAction(action)
                  THEN [resp |-> HttpResponseBadRequest("Invalid action."), calls |-> <<>>]
                  ELSE [resp |-> HttpResponseNotAllowed, calls |-> <<>>]

AccountActionResponse(user, did, raw, method, infoResp) ==
    LET action == Lower(raw)
    IN  IF ~LoginRequired(user)
        THEN [resp |-> RedirectToLogin(PathOf("account_action", did, raw)), calls |-> <<>>]
        ELSE IF InvalidAction(action)
             THEN [resp |-> HttpResponseBadRequest("Invalid action."), calls |-> <<>>]
             ELSE IF method = "GET"
                  THEN [resp |-> [NoResponse EXCEPT !.code = 200,
                                                    !.template = "account_action.html",
                                                    !.did = did, !.action = action,
                                                    !.account_info = GetPdsAccountInfo(did, infoResp)],
                        calls |-> <<[endpoint |-> "getAccountInfo", dids |-> <<did>>]>>]
                  ELSE [resp |-> HttpResponseNotAllowed, calls |-> <<>>]

\* The POST branch is taken: the request is authenticated, the action is
\* valid and the method is POST.
MutReachesExecutor(user, raw, method) ==
    LoginRequired(user) /\ ~InvalidAction(Lower(raw))

ReachesExecutor(user, raw, method) ==
    LoginRequired(user) /\ ~InvalidAction(Lower(raw)) /\ method = "POST"

AccountActionView(c) ==
    /\ CanRequest(c)
    /\ nreq' = nreq + 1
    /\ \E did \in DIDs, raw \in ActionInputs, method \in Methods, infoResp \in InfoResponses :
          /\ ~ReachesExecutor(session[c], raw, method)
          /\ LET r == AccountActionResponse(session[c], did, raw, method, infoResp)
             IN  last' = Completed(nreq', c, session[c], "account_action", method, did, raw,
                                   r.resp, r.calls, FALSE)
    /\ UNCHANGED <<session, pending, auditLog, invocations, now>>
    /\ UNCHANGED utilVars

\* The frame of a POST after handler(did) has returned.
PostFrame(id, user, method, did, raw, t, resp) ==
    LET action == Lower(raw)
        entry == ACCOUNT_ACTIONS[action]
        h == CallHandler(entry.handler, did, t, resp)
    IN  [active |-> TRUE, id |-> id, user |-> user, method |-> method, did |-> did, raw |-> raw,
         action |-> action,
         event |-> entry.event, call |-> h.call, ok |-> h.ok]

\* A variant that writes the audit record before it calls the executor.
MutAccountActionPost(c) ==
    /\ CanRequest(c)
    /\ nreq' = nreq + 1
    /\ \E did \in DIDs, raw \in ActionInputs, method \in Methods, resp \in ExecutorResponses :
          /\ ReachesExecutor(session[c], raw, method)
          /\ pending' = [pending EXCEPT
                            ![c] = PostFrame(nreq', session[c], method, did, raw, now, resp)]
          /\ auditLog' = Create(auditLog, session[c], pending'[c].event,
                                Description(pending'[c].action, did), now, nreq')
    /\ UNCHANGED <<session, last, invocations, now>>
    /\ UNCHANGED utilVars

\* account_action_view, POST: audit_event, handler = ACCOUNT_ACTIONS[action]; handler(did)
AccountActionPost(c) ==
    /\ CanRequest(c)
    /\ nreq' = nreq + 1
    /\ \E did \in DIDs, raw \in ActionInputs, method \in Methods, resp \in ExecutorResponses :
          /\ ReachesExecutor(session[c], raw, method)
          /\ pending' = [pending EXCEPT
                            ![c] = PostFrame(nreq', session[c], method, did, raw, now, resp)]
          /\ invocations' = Append(invocations,
                                   [req |-> nreq', call |-> pending'[c].call])
    /\ UNCHANGED <<session, last, auditLog, now>>
    /\ UNCHANGED utilVars

\* The audit record of a POST.
MutPostAuditLog(log, p, t) ==
    IF p.ok THEN Create(log, p.user, p.event, Description(p.action, p.did), t, p.id) ELSE log

PostAuditLog(log, p, t) ==
    Create(log, p.user, p.event, Description(p.action, p.did), t, p.id)

\* A variant that coordinates the requests: a POST whose action and identifier
\* are those of another POST in flight leaves the record to the other one.
MutAccountActionAudit(c) ==
    /\ pending[c].active
    /\ auditLog' = IF \E e \in Clients \ {c} :
                         /\ pending[e].active
                         /\ pending[e].action = pending[c].action
                         /\ pending[e].did = pending[c].did
                   THEN auditLog
                   ELSE PostAuditLog(auditLog, pending[c], now)
    /\ last' = Completed(pending[c].id, c, pending[c].user, "account_action", pending[c].method,
                         pending[c].did, pending[c].raw,
                         [Redirect("dashboard") EXCEPT !.content = "success"],
                         <<[endpoint |-> pending[c].call.endpoint, dids |-> <<pending[c].did>>]>>,
                         pending[c].ok)
    /\ pending' = [pending EXCEPT ![c] = NoPending]
    /\ UNCHANGED <<session, invocations, now, nreq>>
    /\ UNCHANGED utilVars

\* account_action_view, POST: AuditLog.objects.create(...); redirect("dashboard")
AccountActionAudit(c) ==
    /\ pending[c].active
    /\ auditLog' = PostAuditLog(auditLog, pending[c], now)
    /\ last' = Completed(pending[c].id, c, pending[c].user, "account_action", pending[c].method,
                         pending[c].did, pending[c].raw,
                         [Redirect("dashboard") EXCEPT !.content = "success"],
                         <<[endpoint |-> pending[c].call.endpoint, dids |-> <<pending[c].did>>]>>,
                         pending[c].ok)
    /\ pending' = [pending EXCEPT ![c] = NoPending]
    /\ UNCHANGED <<session, invocations, now, nreq>>
    /\ UNCHANGED utilVars

Next ==
    \/ Tick
    \/ \E c \in Clients : LoginView(c)
    \/ \E c \in Clients : LogoutView(c)
    \/ \E c \in Clients : DashboardView(c)
    \/ \E c \in Clients : AuditLogView(c)
    \/ \E c \in Clients : AccountActionView(c)
    \/ \E c \in Clients : AccountActionPost(c)
    \/ \E c \in Clients : AccountActionAudit(c)

Spec == Init /\ [][Next]_vars

(***************************************************************************)
(* SpecLive: the handlers that write the audit table (login, logout, the   *)
(* POST branch of account_action_view), with the handler of a POST running *)
(* on after handler(did) has returned.  The code between the executor's    *)
(* return and the audit record (views.py 126-128) waits for nothing: no    *)
(* lock, no other request.                                                 *)
(***************************************************************************)
InitLive ==
    /\ op = "live"
    /\ batchSize = BATCH_SIZE
    /\ acc = IdleFrame
    /\ health = IdleHealth
    /\ session \in {[c \in Clients |-> IF c = "c1" THEN "alice" ELSE u] : u \in {"bob", Anonymous}}
    /\ pending = [c \in Clients |-> NoPending]
    /\ last = NoRequest
    /\ auditLog = <<>>
    /\ invocations = <<>>
    /\ now = 0
    /\ nreq = 0

NextLive ==
    \/ Tick
    \/ \E c \in Clients : LoginView(c)
    \/ \E c \in Clients : LogoutView(c)
    \/ \E c \in Clients : AccountActionPost(c)
    \/ \E c \in Clients : AccountActionAudit(c)

SpecLive ==
    InitLive /\ [][NextLive]_vars /\ \A c \in Clients : WF_vars(AccountActionAudit(c))

(***************************************************************************)
(* SpecCrash: Spec, with a POST that can be interrupted after handler(did)  *)
(* has returned and before AuditLog.objects.create has inserted the row    *)
(* (the process is killed, or the insertion raises).  The request ends     *)
(* there: no record, and no response that the model observes.              *)
(***************************************************************************)
InitCrash ==
    /\ op = "crash"
    /\ batchSize = BATCH_SIZE
    /\ acc = IdleFrame
    /\ health = IdleHealth
    /\ session \in {[c \in Clients |-> IF c = "c1" THEN "alice" ELSE u] : u \in {"bob", Anonymous}}
    /\ pending = [c \in Clients |-> NoPending]
    /\ last = NoRequest
    /\ auditLog = <<>>
    /\ invocations = <<>>
    /\ now = 0
    /\ nreq = 0

Interrupt(c) ==
    /\ pending[c].active
    /\ pending' = [pending EXCEPT ![c] = NoPending]
    /\ UNCHANGED <<session, last, auditLog, invocations, now, nreq>>
    /\ UNCHANGED utilVars

NextCrash ==
    \/ Tick
    \/ \E c \in Clients : LoginView(c)
    \/ \E c \in Clients : LogoutView(c)
    \/ \E c \in Clients : DashboardView(c)
    \/ \E c \in Clients : AuditLogView(c)
    \/ \E c \in Clients : AccountActionView(c)
    \/ \E c \in Clients : AccountActionPost(c)
    \/ \E c \in Clients : AccountActionAudit(c)
    \/ \E c \in Clients : Interrupt(c)

SpecCrash == InitCrash /\ [][NextCrash]_vars

(***************************************************************************)
(* SpecTakedown: the POST branch of account_action_view alone, over a       *)
(* clock that runs into the next second.                                   *)
(***************************************************************************)
InitTakedown ==
    /\ op = "takedown"
    /\ batchSize = BATCH_SIZE
    /\ acc = IdleFrame
    /\ health = IdleHealth
    /\ session \in {[c \in Clients |-> IF c = "c1" THEN "alice" ELSE u] : u \in {"bob", Anonymous}}
    /\ pending = [c \in Clients |-> NoPending]
    /\ last = NoRequest
    /\ auditLog = <<>>
    /\ invocations = <<>>
    /\ now = 0
    /\ nreq = 0

NextTakedown ==
    \/ Tick
    \/ \E c \in Clients : AccountActionPost(c)
    \/ \E c \in Clients : AccountActionAudit(c)

SpecTakedown == InitTakedown /\ [][NextTakedown]_vars

(***************************************************************************)
(* SpecAudit: the handlers that write the audit table without calling the  *)
(* PDS (login, logout) and the one that reads it (audit_log_view).         *)
(***************************************************************************)
InitAudit ==
    /\ op = "audit"
    /\ batchSize = BATCH_SIZE
    /\ acc = IdleFrame
    /\ health = IdleHealth
    /\ session \in {[c \in Clients |-> IF c = "c1" THEN "alice" ELSE u] : u \in {"bob", Anonymous}}
    /\ pending = [c \in Clients |-> NoPending]
    /\ last = NoRequest
    /\ auditLog = <<>>
    /\ invocations = <<>>
    /\ now = 0
    /\ nreq = 0

NextAudit ==
    \/ Tick
    \/ \E c \in Clients : LoginView(c)
    \/ \E c \in Clients : LogoutView(c)
    \/ \E c \in Clients : AuditLogView(c)

SpecAudit == InitAudit /\ [][NextAudit]_vars

(***************************************************************************)
(* Properties of web/utils.py, checked under SpecUtils.                    *)
(***************************************************************************)
Ceil(n, b) == (n + b - 1) \div b

BulkCalls == {j \in 1 .. Len(acc.calls) : acc.calls[j].endpoint = "getAccountInfos"}

\* The call has ended, by a return or by an exception that escaped.
Ended == acc.pc \in {"returned", "raised"}

\* The listing request was answered by a list of accounts, each with an identifier.
BaseListed ==
    /\ acc.pc # "idle"
    /\ ~RequestFailed(acc.listing)
    /\ acc.listing.json = "object"
    /\ acc.listing.has
    /\ \A k \in 1 .. Len(acc.listing.items) : "did" \in DOMAIN acc.listing.items[k]

BaseList == acc.listing.items

\* The batch (1-based) that the k-th account of the base list belongs to.
BatchIndex(k) == ((k - 1) \div batchSize) + 1

\* Answer j is a decoded object: its batch succeeded.
Succeeded(j) == ~RequestFailed(acc.answers[j]) /\ acc.answers[j].json = "object"

InfosOf(j) == IF acc.answers[j].has THEN acc.answers[j].items ELSE <<>>

\* C5: for every batch size and every base list of N accounts,
\* extend_with_account_info sends exactly ceil(N/B) bulk-info requests and
\* returns exactly N records carrying the base list's identifiers position by
\* position, whatever the bulk-info answers contain.
C5_CallsAndRecords ==
    (Ended /\ BaseListed) =>
        /\ acc.pc = "returned"
        /\ Cardinality(BulkCalls) = Ceil(Len(BaseList), batchSize)
        /\ Len(acc.result) = Len(BaseList)
        /\ \A k \in 1 .. Len(BaseList) : acc.result[k].did = BaseList[k].did

\* C6: when a bulk-info request fails with a transport error, the remaining
\* batches are still attempted, every account of the failed batch comes back
\* with handle, email and indexedAt "unknown", and every account of a
\* successful batch carries what the service returned for it.
C6_FailedBatchUnknown ==
    (Ended /\ BaseListed /\ \E j \in 1 .. Len(acc.answers) : acc.answers[j].kind = "error") =>
        /\ acc.pc = "returned"
        /\ Len(acc.answers) = Ceil(Len(BaseList), batchSize)
        /\ \A k \in 1 .. Len(BaseList) :
              LET j == BatchIndex(k)
                  r == acc.result[k]
              IN  /\ acc.answers[j].kind = "error" =>
                        r.handle = Unknown /\ r.email = Unknown /\ r.indexedAt = Unknown
                  /\ Succeeded(j) =>
                        \A n \in 1 .. Len(InfosOf(j)) :
                            LET e == InfosOf(j)[n]
                            IN  (/\ e.did = BaseList[k].did
                                 /\ \A m \in n + 1 .. Len(InfosOf(j)) : InfosOf(j)[m].did # e.did)
                                => /\ r.handle = DictGet(e, "handle", Unknown)
                                   /\ r.email = DictGet(e, "email", Unknown)
                                   /\ r.indexedAt = DictGet(e, "createdAt", Unknown)

\* No answer of the service carries an entry for identifier x.
NoEntryFor(x) ==
    \A j \in 1 .. Len(acc.answers) :
        Succeeded(j) => \A n \in 1 .. Len(InfosOf(j)) : InfosOf(j)[n].did # x

\* Some answer of the service carries an entry for identifier x.
LookupHas(x) ==
    \E j \in 1 .. Len(acc.answers) :
        Succeeded(j) /\ \E n \in 1 .. Len(InfosOf(j)) : InfosOf(j)[n].did = x

OverlaidKeys == {"handle", "email", "indexedAt"}

\* C7: a base-list entry whose identifier the merged lookup lacks comes back
\* with handle, email and indexedAt "unknown" and every other field unchanged;
\* an identifier that only the lookup holds produces no record.
C7_MissingFilledWithUnknown ==
    (acc.pc = "returned" /\ BaseListed) =>
        /\ Len(acc.result) = Len(BaseList)
        /\ \A k \in 1 .. Len(BaseList) :
              /\ acc.result[k].did = BaseList[k].did
              /\ NoEntryFor(BaseList[k].did) =>
                    /\ acc.result[k].handle = Unknown
                    /\ acc.result[k].email = Unknown
                    /\ acc.result[k].indexedAt = Unknown
                    /\ DOMAIN acc.result[k] = DOMAIN BaseList[k] \cup OverlaidKeys
                    /\ \A key \in DOMAIN BaseList[k] \ OverlaidKeys :
                          acc.result[k][key] = BaseList[k][key]

\* A listing of d1 and d2 where the lookup holds d2 and d3 but not d1.
C7_Witness ==
    /\ acc.pc = "returned"
    /\ BaseListed
    /\ Len(BaseList) = 2
    /\ BaseList[1].did = "d1" /\ BaseList[2].did = "d2"
    /\ NoEntryFor("d1")
    /\ LookupHas("d2")
    /\ LookupHas("d3")

\* The listing request hit a transport error, an error status or a body that
\* is malformed (not an object, or an object without "repos").
ListingFailedOrMalformed ==
    \/ RequestFailed(acc.listing)
    \/ acc.listing.json # "object"
    \/ ~acc.listing.has

\* C8: get_pds_accounts never lets a fault escape; on a transport error, an
\* error status or a malformed body it returns the empty list.
C8_FailClosed ==
    (Ended /\ ListingFailedOrMalformed) => (acc.pc = "returned" /\ acc.result = <<>>)

\* C9: get_pds_status returns true exactly when the health endpoint answered
\* with status 200; any other status, and a transport error, gives false.
C9_HealthyIff200 ==
    health.pc = "returned" =>
        (health.value <=> (health.resp.kind = "http" /\ health.resp.status = 200))

\* get_pds_status has answered false to a 2xx status other than 200.
C9_Witness ==
    /\ health.pc = "returned"
    /\ health.resp.kind = "http"
    /\ health.resp.status = 204
    /\ health.value = FALSE


(***************************************************************************)
(* Properties of web/views.py, checked under Spec and SpecAudit.           *)
(***************************************************************************)
\* Two letters that differ at most by case.
SameLetter(x, y) ==
    x = y \/ \E k \in 1 .. Len(UpperCase) : {x, y} = {UpperCase[k], LowerCase[k]}

\* The name a, compared without regard to case, is the action name b.
SameName(a, b) == Len(a) = Len(b) /\ \A i \in 1 .. Len(a) : SameLetter(a[i], b[i])

\* The raw action of a URL names one of takedown, untakedown, delete.
NamesAction(raw) == \E b \in {Takedown, Untakedown, Delete} : SameName(raw, b)

\* The audit rows and the executor calls of request id.
RowsOf(id) == {k \in 1 .. Len(auditLog) : auditLog[k].req = id}

InvocationsOf(id) == {k \in 1 .. Len(invocations) : invocations[k].req = id}

\* The request that completed last is an authenticated one of account_action_view.
LastIsAction == last.id # 0 /\ last.view = "account_action" /\ last.user # Anonymous

\* C1: an authenticated POST of takedown, untakedown or delete ends with
\* exactly one new audit record (actor the requesting principal, the event
\* kind of the action, description "User performed {action} on {id}") and a
\* redirect to the dashboard, whether the executor returned True or False.
C1_PostWritesOneAuditRecord ==
    (LastIsAction /\ last.method = "POST" /\ NamesAction(last.action)) =>
        /\ Cardinality(RowsOf(last.id)) = 1
        /\ \A k \in RowsOf(last.id) :
              /\ auditLog[k].user = last.user
              /\ \A b \in {Takedown, Untakedown, Delete} :
                    SameName(last.action, b) =>
                        /\ auditLog[k].event =
                              (CASE b = Takedown   -> "TAKEDOWN"
                                 [] b = Untakedown -> "UNTAKEDOWN"
                                 [] b = Delete     -> "DELETE")
                        /\ auditLog[k].description = <<"User performed ">> \o b \o <<" on ", last.did>>
        /\ last.resp.code = 302
        /\ last.resp.location = "dashboard"

\* A POST completed although its executor returned False.
C1_Witness ==
    /\ LastIsAction
    /\ last.method = "POST"
    /\ NamesAction(last.action)
    /\ last.action # Lower(last.action)
    /\ ~last.ok
    /\ Cardinality(RowsOf(last.id)) = 1

\* C2: an authenticated request, GET or POST, whose action name is none of
\* takedown, untakedown, delete (compared without case) is answered 400; it
\* invokes no executor, sends nothing to the PDS and writes no audit record.
C2_InvalidActionRejected ==
    (LastIsAction /\ ~NamesAction(last.action)) =>
        /\ last.resp.code = 400
        /\ last.calls = <<>>
        /\ InvocationsOf(last.id) = {}
        /\ RowsOf(last.id) = {}

\* An authenticated POST of an unknown action was answered 400.
C2_Witness ==
    /\ LastIsAction
    /\ last.method = "POST"
    /\ ~NamesAction(last.action)
    /\ last.resp.code = 400

\* C3: an authenticated GET of a valid action has no side effect: no
\* executor is invoked, the audit trail is unchanged, and the confirmation
\* page is reached also when the account lookup fails and gives None.
C3_GetHasNoSideEffect ==
    (LastIsAction /\ last.method = "GET" /\ NamesAction(last.action)) =>
        /\ last.resp.code = 200
        /\ last.resp.template = "account_action.html"
        /\ InvocationsOf(last.id) = {}
        /\ RowsOf(last.id) = {}
        /\ \A k \in 1 .. Len(last.calls) : last.calls[k].endpoint \notin ExecutorEndpoints

\* The confirmation page was rendered after the account lookup failed.
C3_Witness ==
    /\ LastIsAction
    /\ last.method = "GET"
    /\ NamesAction(last.action)
    /\ last.resp.code = 200
    /\ last.resp.account_info.isNone

\* C4: a request to account_action_view or audit_log_view without an
\* authenticated principal is redirected to the login page, with the path
\* asked for as next; it invokes no executor, sends nothing to the PDS and
\* writes no audit record.
C4_AnonymousRedirectedToLogin ==
    (last.id # 0 /\ last.user = Anonymous /\ last.view \in {"account_action", "audit_log"}) =>
        /\ last.resp.code = 302
        /\ last.resp.location = "login"
        /\ last.resp.next = (IF last.view = "audit_log"
                             THEN <<"/audit-log/">>
                             ELSE <<"/accounts/", last.did, "/">> \o last.action \o <<"/">>)
        /\ last.calls = <<>>
        /\ InvocationsOf(last.id) = {}
        /\ RowsOf(last.id) = {}

\* An anonymous POST of takedown was redirected.
C4_Witness ==
    /\ last.id # 0
    /\ last.user = Anonymous
    /\ last.view = "account_action"
    /\ last.method = "POST"
    /\ last.action = Takedown
    /\ last.resp.code = 302

\* The rows of a listing are in non-increasing order of created_at.
NewestFirst(rows) ==
    \A i, j \in 1 .. Len(rows) : i < j => rows[i].created_at >= rows[j].created_at

\* Rows of equal created_at: the one inserted later comes first.
TiesLaterFirst(rows) ==
    \A i, j \in 1 .. Len(rows) :
        (i < j /\ rows[i].created_at = rows[j].created_at) => rows[i].id > rows[j].id

\* Rows of equal created_at: the one inserted earlier comes first.
TiesEarlierFirst(rows) ==
    \A i, j \in 1 .. Len(rows) :
        (i < j /\ rows[i].created_at = rows[j].created_at) => rows[i].id < rows[j].id

\* C10: the listing of audit_log_view is ordered newest first by created_at,
\* and rows of equal created_at come in an order that their insertion order
\* determines.
C10_TiesByInsertionOrder ==
    (last.view = "audit_log" /\ last.resp.code = 200) =>
        /\ NewestFirst(last.resp.audit_logs)
        /\ TiesLaterFirst(last.resp.audit_logs) \/ TiesEarlierFirst(last.resp.audit_logs)

(***************************************************************************)
(* Properties of the audit table, checked under Spec.                      *)
(***************************************************************************)
\* What a record says: its actor, event kind, description and creation time.
Content(row) ==
    [user |-> row.user, event |-> row.event, description |-> row.description,
     created_at |-> row.created_at]

\* Every record of the table before the step is in the table after it, at
\* the same place and with the same content.
RecordsKept ==
    /\ Len(auditLog') >= Len(auditLog)
    /\ \A k \in 1 .. Len(auditLog) :
          /\ auditLog'[k].id = auditLog[k].id
          /\ Content(auditLog'[k]) = Content(auditLog[k])

EventKindsValid == \A k \in 1 .. Len(auditLog) : auditLog[k].event \in AuditLogEvent

\* C11: the audit trail is append-only under login, logout, dashboard,
\* audit-log view, action GET and action POST: every step keeps each record
\* already appended, with the same actor, event kind, description and
\* creation timestamp, and in every reachable state every record's event
\* kind is one of LOGIN, LOGOUT, DELETE, TAKEDOWN, UNTAKEDOWN, PASSWORD_CHANGE.
C11_AppendOnly == EventKindsValid /\ [][RecordsKept /\ EventKindsValid']_vars

\* A POST appended its record, a tick later, behind the record of a request
\* that had started after it and written its own record first.
C11_Witness ==
    /\ Len(auditLog) >= 2
    /\ auditLog[1].req > auditLog[2].req
    /\ auditLog[1].created_at < auditLog[2].created_at
    /\ auditLog[2].event \in {"TAKEDOWN", "UNTAKEDOWN", "DELETE"}

(***************************************************************************)
(* Concurrent POSTs, checked under SpecLive.                               *)
(***************************************************************************)
\* Requests i and j are POSTs of the same action on the same identifier, both
\* between the executor's call and the audit record.
InFlightTogether(i, j) ==
    \E c, e \in Clients :
        /\ c # e
        /\ pending[c].active /\ pending[c].id = i
        /\ pending[e].active /\ pending[e].id = j
        /\ pending[c].action = pending[e].action
        /\ pending[c].did = pending[e].did

\* Request i was answered: it has left the handler.
Answered(i) == \A c \in Clients : ~(pending[c].active /\ pending[c].id = i)

\* Two POSTs in flight together have each called the executor once and
\* neither has written its record yet.
TwoCallsNoRecord ==
    \A i, j \in 1 .. MaxRequests :
        InFlightTogether(i, j) =>
            /\ Cardinality(InvocationsOf(i)) = 1
            /\ Cardinality(InvocationsOf(j)) = 1
            /\ RowsOf(i) = {} /\ RowsOf(j) = {}

\* C12: two concurrent authenticated POSTs of the same action on the same
\* identifier are not coordinated: once both have called the executor there
\* are two remote calls and no record yet (in every reachable state), and
\* under every interleaving both complete, each with one remote call of its
\* own and one audit record of its own, the two records having the same
\* event kind and description.
C12_ConcurrentPostsUncoordinated ==
    /\ TwoCallsNoRecord
    /\ [][TwoCallsNoRecord']_vars
    /\ \A i, j \in 1 .. MaxRequests :
          (i < j) =>
              (InFlightTogether(i, j) ~>
                  /\ Answered(i) /\ Answered(j)
                  /\ Cardinality(InvocationsOf(i)) = 1
                  /\ Cardinality(InvocationsOf(j)) = 1
                  /\ Cardinality(RowsOf(i)) = 1
                  /\ Cardinality(RowsOf(j)) = 1
                  /\ \A k \in RowsOf(i), l \in RowsOf(j) :
                        /\ k # l
                        /\ auditLog[k].event = auditLog[l].event
                        /\ auditLog[k].description = auditLog[l].description)

\* Two POSTs of the same action on the same identifier have both completed,
\* the one that called the executor second having written its record first.
C12_Witness ==
    /\ \A c \in Clients : ~pending[c].active
    /\ \E k, l \in 1 .. Len(auditLog) :
          /\ k < l
          /\ auditLog[k].req > auditLog[l].req
          /\ auditLog[k].event \in {"TAKEDOWN", "UNTAKEDOWN", "DELETE"}
          /\ auditLog[k].event = auditLog[l].event
          /\ auditLog[k].description = auditLog[l].description
          /\ Cardinality(InvocationsOf(auditLog[k].req)) = 1
          /\ Cardinality(InvocationsOf(auditLog[l].req)) = 1
          /\ \E a, b \in 1 .. Len(invocations) :
                /\ a # b
                /\ invocations[a].req = auditLog[k].req
                /\ invocations[b].req = auditLog[l].req
                /\ invocations[a].call.endpoint = invocations[b].call.endpoint
                /\ invocations[a].call.did = invocations[b].call.did

(***************************************************************************)
(* The executor's call and the audit record, checked under SpecCrash.      *)
(***************************************************************************)
ActionEvents == {"TAKEDOWN", "UNTAKEDOWN", "DELETE"}

ActionRows == {k \in 1 .. Len(auditLog) : auditLog[k].event \in ActionEvents}

\* The event kind of the action a request sent to the PDS carries out.
EventOfCall(call) ==
    IF call.endpoint = "deleteAccount" THEN "DELETE"
    ELSE IF call.applied THEN "TAKEDOWN" ELSE "UNTAKEDOWN"

\* The executor was invoked, in the calls made so far (calls), by the request
\* that wrote row, for the action and the identifier the row names.
InvokedFor(row, calls) ==
    \E a \in 1 .. Len(calls) :
        /\ calls[a].req = row.req
        /\ EventOfCall(calls[a].call) = row.event
        /\ calls[a].call.did = row.description[Len(row.description)]

\* Every TAKEDOWN, UNTAKEDOWN or DELETE record has its invocation, and such
\* records are no more than the invocations.
RecordsInvoked ==
    /\ \A k \in ActionRows : InvokedFor(auditLog[k], invocations)
    /\ Cardinality(ActionRows) <= Len(invocations)

\* C13: each TAKEDOWN, UNTAKEDOWN or DELETE audit record is appended after
\* the executor was invoked for the same action and identifier within the same
\* request: a step that appends such a record finds the invocation already
\* made, and in every reachable state every such record has its invocation
\* and the records are no more than the invocations.  An interruption between
\* the two leaves an invocation without record, never the reverse.
C13_RecordAfterInvocation ==
    /\ RecordsInvoked
    /\ [][/\ \A k \in (1 .. Len(auditLog')) \ (1 .. Len(auditLog)) :
                auditLog'[k].event \in ActionEvents => InvokedFor(auditLog'[k], invocations)
           /\ RecordsInvoked']_vars

\* One POST has written its record and another one was interrupted after its
\* executor's call: two invocations, one record, no request in flight.
C13_Witness ==
    /\ \A c \in Clients : ~pending[c].active
    /\ Cardinality(ActionRows) = 1
    /\ Len(invocations) = 2
    /\ \E a \in 1 .. Len(invocations) : RowsOf(invocations[a].req) = {}
    /\ \A k \in ActionRows : InvokedFor(auditLog[k], invocations)

(***************************************************************************)
(* The reference token of a takedown, checked under SpecTakedown.          *)
(***************************************************************************)
\* The executor calls that apply a takedown.
TakedownCalls ==
    {a \in 1 .. Len(invocations) :
        /\ invocations[a].call.endpoint = "updateSubjectStatus"
        /\ invocations[a].call.applied}

\* C14: every call of takedown_pds_account generates a fresh reference
\* token: any two takedown calls on the same account, made in close
\* succession or concurrently, send different reference tokens to the PDS.
C14_FreshTakedownRef ==
    \A a, b \in TakedownCalls :
        (a # b /\ invocations[a].call.did = invocations[b].call.did) =>
            invocations[a].call.ref # invocations[b].call.ref

\* Two takedown calls on the same account, a second apart, sent different
\* reference tokens.
TakedownRefsCanDiffer ==
    \E a, b \in TakedownCalls :
        /\ a # b
        /\ invocations[a].call.did = invocations[b].call.did
        /\ invocations[a].call.ref # invocations[b].call.ref

=============================================================================
